---- MODULE Spec2Model ----
(***************************************************************************)
(* Model of HUFF.py: a Huffman codec for text files holding one base-10    *)
(* integer per line.  The script tokenises the file into the 11 symbols    *)
(* 0..9 and 10 (separator), builds the Huffman tree as a parent array,     *)
(* derives the codes, writes header and packed payload to FILE.huf, and    *)
(* then decodes FILE.huf again into FILE.tmp.                              *)
(*                                                                         *)
(* Python lists are sequences here: list index k is position k+1.          *)
(* A str of bits is a sequence over {0,1}; a text str is a sequence of     *)
(* one-character strings.                                                  *)
(***************************************************************************)
EXTENDS Integers, Sequences, FiniteSets, TLC

VARIABLES src, i, text, counts, pc, q, header, code, codes, huf, cut,
          fpos, rheader, rcodes, buffer, number, out, j, writing, err

vars == <<src, i, text, counts, pc, q, header, code, codes, huf, cut,
          fpos, rheader, rcodes, buffer, number, out, j, writing, err>>

(***************************************************************************)
(* Bounds of the model.                                                    *)
(***************************************************************************)
\* most lines in an enumerated input file
MaxLines == 2
\* most characters (over all lines) in an enumerated input file
MaxChars == 4
\* most symbols counted, over all 11 entries, in an enumerated frequency table
MaxSum == 5
\* most bytes an outside truncation removes from the end of FILE.huf
MaxCut == 2

(***************************************************************************)
(* Helpers for Python's list and str operations.                           *)
(***************************************************************************)
At(s, k) == s[k + 1]

Min2(a, b) == IF a < b THEN a ELSE b

\* s[:n]
Take(s, n) == SubSeq(s, 1, Min2(n, Len(s)))

\* s[n:]
Drop(s, n) == SubSeq(s, n + 1, Len(s))

\* len(s) >= len(p) and s[:len(p)] == p
IsPrefix(p, s) == Len(s) >= Len(p) /\ SubSeq(s, 1, Len(p)) = p

RECURSIVE Repeat(_, _)
\* [x] * n
Repeat(x, n) == IF n <= 0 THEN <<>> ELSE Append(Repeat(x, n - 1), x)

DigitChars == <<"0", "1", "2", "3", "4", "5", "6", "7", "8", "9">>

\* ord(c) - ord('0') for a decimal digit character
DigitOf(c) == CHOOSE d \in 0..9 : DigitChars[d + 1] = c

\* chr(ord('0') + n)
CharOf(n) == DigitChars[n + 1]

RECURSIVE Bin(_)
\* the binary digits of v, most significant first, without leading zeros
Bin(v) == IF v < 2 THEN <<v>> ELSE Bin(v \div 2) \o <<v % 2>>

\* f"{v:0{w}b}": binary, zero-padded on the left to at least w digits
FormatBits(v, w) ==
  LET b == Bin(v) IN IF Len(b) >= w THEN b ELSE Repeat(0, w - Len(b)) \o b

RECURSIVE BitsToInt(_)
\* int(bits, 2)
BitsToInt(b) ==
  IF Len(b) = 0 THEN 0 ELSE 2 * BitsToInt(SubSeq(b, 1, Len(b) - 1)) + b[Len(b)]

(***************************************************************************)
(* tree(): the Huffman tree as a parent array.                             *)
(***************************************************************************)
\* the 11 symbols: digits 0-9 and the separator
NSym == 11

\* root "parent": 0xF + 11
root == 15 + NSym

\* tuple order of the PriorityQueue entries (count, node)
EntryLess(e, f) == e[1] < f[1] \/ (e[1] = f[1] /\ e[2] < f[2])

\* the entry q.get() returns
QGet(qq) == CHOOSE e \in qq : \A f \in qq \ {e} : EntryLess(e, f)

\* tree = [root] * 11
TreeLeaves == Repeat(root, NSym)

\* q after the loop that puts (count, symbol) for every symbol
TreeQueue(cnt) == {<<At(cnt, s), s>> : s \in 0..(NSym - 1)}

\* TreeJoin with the fault k = len(tree) - 1: the children point at the node
\* before the one appended
TreeJoinOffByOne(t, qq) ==
  LET e1 == QGet(qq)
      q1 == qq \ {e1}
      e2 == QGet(q1)
      q2 == q1 \ {e2}
      k  == Len(t) - 1
  IN  [tree |-> [Append(t, root) EXCEPT ![e1[2] + 1] = k, ![e2[2] + 1] = k],
       q    |-> q2 \cup {<<e1[1] + e2[1], k + 1>>}]

\* one pass of the while loop that joins two nodes: [tree, q] afterwards
TreeJoin(t, qq) ==
  LET e1 == QGet(qq)
      q1 == qq \ {e1}
      e2 == QGet(q1)
      q2 == q1 \ {e2}
      k  == Len(t)
  IN  [tree |-> [Append(t, root) EXCEPT ![e1[2] + 1] = k, ![e2[2] + 1] = k],
       q    |-> q2 \cup {<<e1[1] + e2[1], k>>}]

RECURSIVE TreeLoop(_, _)
TreeLoop(t, qq) ==
  IF Cardinality(qq) <= 1 THEN t
  ELSE LET r == TreeJoin(t, qq) IN TreeLoop(r.tree, r.q)

tree(cnt) == TreeLoop(TreeLeaves, TreeQueue(cnt))

(***************************************************************************)
(* huffman(): the codes from the parent array.                             *)
(***************************************************************************)
\* HuffmanVisit with the fault that children[parent] is never incremented
HuffmanVisitNoCount(t, st, k) ==
  LET parent == At(t, k) IN
  IF parent < Len(t)
  THEN [code     |-> [st.code EXCEPT ![k + 1] =
                        Append(At(st.code, parent), At(st.children, parent))],
        children |-> st.children]
  ELSE st

\* HuffmanVisit with the fault that the first child parsed gets bit 1
HuffmanVisitFlipped(t, st, k) ==
  LET parent == At(t, k) IN
  IF parent < Len(t)
  THEN [code     |-> [st.code EXCEPT ![k + 1] =
                        Append(At(st.code, parent), 1 - At(st.children, parent))],
        children |-> [st.children EXCEPT ![parent + 1] = @ + 1]]
  ELSE st

\* one pass of the backward loop, at list index k
HuffmanVisit(t, st, k) ==
  LET parent == At(t, k) IN
  IF parent < Len(t)
  THEN [code     |-> [st.code EXCEPT ![k + 1] =
                        Append(At(st.code, parent), At(st.children, parent))],
        children |-> [st.children EXCEPT ![parent + 1] = @ + 1]]
  ELSE st

RECURSIVE HuffmanLoop(_, _, _)
\* the loop for i in range(len(tree)-1, -1, -1), from index k downwards
HuffmanLoop(t, st, k) ==
  IF k < 0 THEN st ELSE HuffmanLoop(t, HuffmanVisit(t, st, k), k - 1)

\* the list code when the loop has ended
HuffmanCode(t) ==
  HuffmanLoop(t, [code |-> Repeat(<<>>, Len(t)), children |-> Repeat(0, Len(t))],
              Len(t) - 1).code

\* code[:11]
huffman(t) == Take(HuffmanCode(t), NSym)

(***************************************************************************)
(* ENCODE: read input.                                                     *)
(***************************************************************************)
\* ScanChar with the fault that a minus ends the leading zeros
ScanCharSignEndsLeading(c, st) ==
  IF st.leading /\ c = "0"
  THEN st
  ELSE LET digit == IF c = "-" THEN DigitOf("0") ELSE DigitOf(c)
       IN  [leading |-> FALSE,
            text    |-> Append(st.text, digit),
            counts  |-> [st.counts EXCEPT ![digit + 1] = @ + 1]]

\* the body of "for c in line.strip()" for the character c;
\* st is [leading, text, counts]
ScanChar(c, st) ==
  IF st.leading /\ c = "0"
  THEN st
  ELSE LET digit == IF c = "-" THEN DigitOf("0") ELSE DigitOf(c)
       IN  [leading |-> IF c = "-" THEN st.leading ELSE FALSE,
            text    |-> Append(st.text, digit),
            counts  |-> [st.counts EXCEPT ![digit + 1] = @ + 1]]

RECURSIVE ScanLine(_, _, _)
\* the loop over the characters of one stripped line, from position k on
ScanLine(line, k, st) ==
  IF k > Len(line) THEN st ELSE ScanLine(line, k + 1, ScanChar(line[k], st))

\* the body of "for line in src" after i += 1: the digits, then a separator;
\* st is [text, counts]
ScanFileLine(line, st) ==
  LET d == ScanLine(line, 1, [leading |-> TRUE, text |-> st.text,
                              counts |-> st.counts])
  IN  [text   |-> Append(d.text, 10),
       counts |-> [d.counts EXCEPT ![10 + 1] = @ + 1]]

\* text += [0, 0]
EOFSequence == <<0, 0>>

(***************************************************************************)
(* ENCODE: infos.                                                          *)
(***************************************************************************)
RECURSIVE SumCounts(_, _)
\* count after the loop for n in range(11), from index n on
SumCounts(cnt, n) == IF n >= NSym THEN 0 ELSE At(cnt, n) + SumCounts(cnt, n + 1)

(***************************************************************************)
(* ENCODE: write output.                                                   *)
(***************************************************************************)
\* HeaderField with the fault that the index is stored minus 10
HeaderFieldOffByOne(n) == FormatBits(n - NSym + 1, 4)

\* f"{n-11:04b}": the 4 bits that store the parent n
HeaderField(n) == FormatBits(n - NSym, 4)

RECURSIVE HeaderBits(_, _)
\* "".join([f"{n-11:04b}" for n in header]), from position k on
HeaderBits(h, k) ==
  IF k > Len(h) THEN <<>> ELSE HeaderField(h[k]) \o HeaderBits(h, k + 1)

RECURSIVE LoadBuffer(_, _, _, _)
\* the inner loop "while len(buffer) < 8": [buffer, n] when it ends
LoadBuffer(txt, cds, buf, n) ==
  IF Len(buf) < 8
  THEN IF n < Len(txt)
       THEN LoadBuffer(txt, cds, buf \o At(cds, At(txt, n)), n + 1)
       ELSE IF Len(buf) > 0
            THEN LoadBuffer(txt, cds, buf \o Repeat(0, 8 - Len(buf)), n)
            ELSE [buffer |-> buf, n |-> n]
  ELSE [buffer |-> buf, n |-> n]

RECURSIVE WriteLoop(_, _, _, _, _)
\* the loop "while n < len(text) or buffer != ''": the bytes written
WriteLoop(txt, cds, bytes, buf, n) ==
  IF n < Len(txt) \/ buf # <<>>
  THEN LET ld == LoadBuffer(txt, cds, Drop(buf, 8), n)
       IN  WriteLoop(txt, cds, Append(bytes, BitsToInt(Take(buf, 8))),
                     ld.buffer, ld.n)
  ELSE bytes

\* the content of FILE.huf
WriteOutput(h, cds, txt) == WriteLoop(txt, cds, <<>>, HeaderBits(h, 1), 0)

(***************************************************************************)
(* DECODE.                                                                 *)
(***************************************************************************)
\* rb(src) is None at position pos (bytes read so far)
AtEOF(file, pos) == pos >= Len(file)

RECURSIVE ReadHeaderLoop(_, _, _)
\* the loop "while True" that reads the header, pos bytes already read
ReadHeaderLoop(file, pos, h) ==
  IF AtEOF(file, pos)
  THEN [err |-> "TypeError", header |-> h, buffer |-> <<>>, fpos |-> pos]
  ELSE LET byte == At(file, pos)
           a == byte \div 16
           b == byte % 16
       IN  IF a # 15
           THEN IF b = 15
                THEN [err |-> "", header |-> h \o <<a + NSym, b + NSym>>,
                      buffer |-> <<>>, fpos |-> pos + 1]
                ELSE ReadHeaderLoop(file, pos + 1, h \o <<a + NSym, b + NSym>>)
           ELSE [err |-> "", header |-> Append(h, a + NSym),
                 buffer |-> FormatBits(b, 4), fpos |-> pos + 1]

\* the digits n in range(10) whose code the buffer starts with
DigitMatches(cds, buf) == {n \in 0..9 : IsPrefix(At(cds, n), buf)}

SetMin(S) == CHOOSE n \in S : \A m \in S : n <= m

\* the number printed at a separator: "0" when no digit was read
EmitNumber(num) == IF num = <<>> THEN <<"0">> ELSE num

\* the number after digit n is read: a leading zero is a minus
AddDigit(num, n) ==
  IF Len(num) = 0 /\ n = 0 THEN <<"-">> ELSE Append(num, CharOf(n))

RECURSIVE MatchLoop(_, _, _)
\* the inner loop "while True" of the decoder; st is
\* [buffer, number, out, j, writing, err]; lim is i
MatchLoop(cds, lim, st) ==
  IF st.number = <<"-", "0">>
  THEN [st EXCEPT !.writing = FALSE]
  ELSE IF IsPrefix(cds[Len(cds)], st.buffer)
  THEN LET num == EmitNumber(st.number)
           s2  == [st EXCEPT !.buffer = Drop(st.buffer, Len(cds[Len(cds)])),
                             !.out = Append(st.out, num),
                             !.number = <<>>,
                             !.j = st.j + 1]
       IN  IF s2.j <= lim THEN MatchLoop(cds, lim, s2)
           ELSE [s2 EXCEPT !.err = "AssertionError"]
  ELSE IF DigitMatches(cds, st.buffer) # {}
  THEN LET n == SetMin(DigitMatches(cds, st.buffer))
       IN  MatchLoop(cds, lim,
             [st EXCEPT !.number = AddDigit(st.number, n),
                        !.buffer = Drop(st.buffer, Len(At(cds, n)))])
  ELSE st

(***************************************************************************)
(* The input files and frequency tables the model enumerates.              *)
(***************************************************************************)
\* the characters of the enumerated lines (a line is given stripped)
Chars == {"-", "0", "7"}

RECURSIVE Strs(_)
\* the lines of exactly n characters
Strs(n) == IF n = 0 THEN {<<>>} ELSE {Append(s, c) : s \in Strs(n - 1), c \in Chars}

RECURSIVE FilesOf(_, _)
\* the files of exactly n lines and at most b characters
FilesOf(n, b) ==
  IF n = 0 THEN {<<>>}
  ELSE UNION {{<<l>> \o f : f \in FilesOf(n - 1, b - Len(l))} :
                l \in UNION {Strs(m) : m \in 0..b}}

ScenarioA == << <<"0", "0", "7">>, <<"-", "4", "2">>, <<"0">>,
                <<"-", "0", "0", "0", "7">> >>

ScenarioB == << <<"5">> >>

Files == UNION {FilesOf(n, MaxChars) : n \in 0..MaxLines} \cup {ScenarioA, ScenarioB}

\* a table whose tree is as deep as a tree of 11 leaves can be
SkewTable == <<1, 1, 2, 3, 5, 8, 13, 21, 34, 55, 89>>

RECURSIVE TablesOf(_, _)
\* the tables of n counts whose sum is at most s
TablesOf(n, s) ==
  IF n = 0 THEN {<<>>}
  ELSE UNION {{Append(t, c) : t \in TablesOf(n - 1, s - c)} : c \in 0..s}

\* the tables of 11 counts that count at most MaxSum symbols, every table of
\* counts 0 and 1, and the skew table
CountTables == TablesOf(NSym, MaxSum) \cup [1..NSym -> {0, 1}] \cup {SkewTable}

(***************************************************************************)
(* The script, stage by stage.                                             *)
(***************************************************************************)
Start ==
  /\ i = 0
  /\ text = <<>>
  /\ counts = Repeat(0, NSym)
  /\ q = {}
  /\ header = <<>>
  /\ code = <<>>
  /\ codes = <<>>
  /\ huf = <<>>
  /\ cut = 0
  /\ fpos = 0
  /\ rheader = <<>>
  /\ rcodes = <<>>
  /\ buffer = <<>>
  /\ number = <<>>
  /\ out = <<>>
  /\ j = 0
  /\ writing = TRUE
  /\ err = ""

Init ==
  /\ src \in Files
  /\ pc = "read"
  /\ Start

\* one pass of "for line in src"
ReadLine ==
  /\ pc = "read"
  /\ i < Len(src)
  /\ LET st == ScanFileLine(At(src, i), [text |-> text, counts |-> counts])
     IN  /\ text' = st.text
         /\ counts' = st.counts
  /\ i' = i + 1
  /\ UNCHANGED <<src, pc, q, header, code, codes, huf, cut, fpos, rheader,
                 rcodes, buffer, number, out, j, writing, err>>

\* the end of the input: text += [0, 0]
AppendEOF ==
  /\ pc = "read"
  /\ i = Len(src)
  /\ text' = text \o EOFSequence
  /\ pc' = "coding"
  /\ UNCHANGED <<src, i, counts, q, header, code, codes, huf, cut, fpos,
                 rheader, rcodes, buffer, number, out, j, writing, err>>

\* header = tree(counts); codes = huffman(header)
Coding ==
  /\ pc = "coding"
  /\ header' = tree(counts)
  /\ code' = HuffmanCode(header')
  /\ codes' = huffman(header')
  /\ pc' = "infos"
  /\ UNCHANGED <<src, i, text, counts, q, huf, cut, fpos, rheader, rcodes,
                 buffer, number, out, j, writing, err>>

\* the statistics: bits/count divides by the number of symbols counted
Infos ==
  /\ pc = "infos"
  /\ IF SumCounts(counts, 0) = 0
     THEN pc' = "crashed" /\ err' = "ZeroDivisionError"
     ELSE pc' = "write" /\ err' = err
  /\ UNCHANGED <<src, i, text, counts, q, header, code, codes, huf, cut, fpos,
                 rheader, rcodes, buffer, number, out, j, writing>>

\* FILE.huf is written and closed
Write ==
  /\ pc = "write"
  /\ huf' = WriteOutput(header, codes, text)
  /\ pc' = "rdheader"
  /\ UNCHANGED <<src, i, text, counts, q, header, code, codes, cut, fpos,
                 rheader, rcodes, buffer, number, out, j, writing, err>>

\* FILE.huf is opened, its header read, and codes = huffman(header)
ReadHeader ==
  /\ pc = "rdheader"
  /\ LET r == ReadHeaderLoop(huf, 0, <<>>)
     IN  /\ rheader' = r.header
         /\ buffer' = r.buffer
         /\ fpos' = r.fpos
         /\ err' = r.err
         /\ IF r.err = ""
            THEN pc' = "decode" /\ rcodes' = huffman(r.header)
            ELSE pc' = "crashed" /\ rcodes' = rcodes
  /\ number' = <<>>
  /\ writing' = TRUE
  /\ UNCHANGED <<src, i, text, counts, q, header, code, codes, huf, cut, out, j>>

\* one pass of "while writing and (byte := rb(src)) is not None"
DecodeByte ==
  /\ pc = "decode"
  /\ writing
  /\ ~AtEOF(huf, fpos)
  /\ LET st == MatchLoop(rcodes, i,
                 [buffer  |-> buffer \o FormatBits(At(huf, fpos), 8),
                  number  |-> number,
                  out     |-> out,
                  j       |-> j,
                  writing |-> writing,
                  err     |-> err])
     IN  /\ buffer' = st.buffer
         /\ number' = st.number
         /\ out' = st.out
         /\ j' = st.j
         /\ writing' = st.writing
         /\ err' = st.err
         /\ pc' = IF st.err = "" THEN "decode" ELSE "crashed"
  /\ fpos' = fpos + 1
  /\ UNCHANGED <<src, i, text, counts, q, header, code, codes, huf, cut,
                 rheader, rcodes>>

\* the loop ends: the text is ended, or FILE.huf has no more bytes
DecodeEnd ==
  /\ pc = "decode"
  /\ ~writing \/ AtEOF(huf, fpos)
  /\ pc' = "done"
  /\ UNCHANGED <<src, i, text, counts, q, header, code, codes, huf, cut, fpos,
                 rheader, rcodes, buffer, number, out, j, writing, err>>

Next ==
  \/ ReadLine
  \/ AppendEOF
  \/ Coding
  \/ Infos
  \/ Write
  \/ ReadHeader
  \/ DecodeByte
  \/ DecodeEnd

Spec == Init /\ [][Next]_vars

(***************************************************************************)
(* The script decoding a FILE.huf that lost its last bytes after it was    *)
(* written (a truncated payload).                                          *)
(***************************************************************************)
Truncate ==
  /\ pc = "rdheader"
  /\ cut = 0
  /\ \E k \in 1..MaxCut :
       /\ k <= Len(huf)
       /\ huf' = Take(huf, Len(huf) - k)
       /\ cut' = k
  /\ UNCHANGED <<src, i, text, counts, pc, q, header, code, codes, fpos,
                 rheader, rcodes, buffer, number, out, j, writing, err>>

NextTruncated == Next \/ Truncate

SpecTruncated == Init /\ [][NextTruncated]_vars

(***************************************************************************)
(* tree(), huffman() and the header's write and read on any frequency      *)
(* table, tree() join by join; the text is the EOF sequence alone.         *)
(***************************************************************************)
InitTree ==
  /\ src = <<>>
  /\ pc = "tree"
  /\ i = 0
  /\ text = EOFSequence
  /\ counts \in CountTables
  /\ q = {}
  /\ header = <<>>
  /\ code = <<>>
  /\ codes = <<>>
  /\ huf = <<>>
  /\ cut = 0
  /\ fpos = 0
  /\ rheader = <<>>
  /\ rcodes = <<>>
  /\ buffer = <<>>
  /\ number = <<>>
  /\ out = <<>>
  /\ j = 0
  /\ writing = TRUE
  /\ err = ""

\* the 11 leaves and the queue of (count, symbol)
TreeStart ==
  /\ pc = "tree"
  /\ header' = TreeLeaves
  /\ q' = TreeQueue(counts)
  /\ pc' = "join"
  /\ UNCHANGED <<src, i, text, counts, code, codes, huf, cut, fpos, rheader,
                 rcodes, buffer, number, out, j, writing, err>>

\* two nodes are taken from the queue and joined
TreeMerge ==
  /\ pc = "join"
  /\ Cardinality(q) >= 2
  /\ LET r == TreeJoin(header, q)
     IN  header' = r.tree /\ q' = r.q
  /\ UNCHANGED <<src, i, text, counts, pc, code, codes, huf, cut, fpos,
                 rheader, rcodes, buffer, number, out, j, writing, err>>

\* the last node is taken from the queue: nothing to join, return tree
TreeReturn ==
  /\ pc = "join"
  /\ Cardinality(q) <= 1
  /\ q' = {}
  /\ pc' = "huffman"
  /\ UNCHANGED <<src, i, text, counts, header, code, codes, huf, cut, fpos,
                 rheader, rcodes, buffer, number, out, j, writing, err>>

\* codes = huffman(header)
HuffmanCall ==
  /\ pc = "huffman"
  /\ code' = HuffmanCode(header)
  /\ codes' = huffman(header)
  /\ pc' = "coded"
  /\ UNCHANGED <<src, i, text, counts, q, header, huf, cut, fpos, rheader,
                 rcodes, buffer, number, out, j, writing, err>>

\* FILE.huf is written from the tree, and its header read back
HeaderWrite ==
  /\ pc = "coded"
  /\ huf' = WriteOutput(header, codes, text)
  /\ pc' = "rdheader"
  /\ UNCHANGED <<src, i, text, counts, q, header, code, codes, cut, fpos,
                 rheader, rcodes, buffer, number, out, j, writing, err>>

HeaderRead ==
  /\ pc = "rdheader"
  /\ LET r == ReadHeaderLoop(huf, 0, <<>>)
     IN  /\ rheader' = r.header
         /\ buffer' = r.buffer
         /\ fpos' = r.fpos
         /\ err' = r.err
         /\ IF r.err = ""
            THEN pc' = "header" /\ rcodes' = huffman(r.header)
            ELSE pc' = "crashed" /\ rcodes' = rcodes
  /\ UNCHANGED <<src, i, text, counts, q, header, code, codes, huf, cut,
                 number, out, j, writing>>

NextTree ==
  \/ TreeStart
  \/ TreeMerge
  \/ TreeReturn
  \/ HuffmanCall
  \/ HeaderWrite
  \/ HeaderRead

SpecTree == InitTree /\ [][NextTree]_vars

(***************************************************************************)
(* The encode stage as a function of the lines: the bytes of FILE.huf,     *)
(* or no bytes when the script stops before it writes.                     *)
(***************************************************************************)
RECURSIVE ScanFile(_, _, _)
\* the loop "for line in src", from list index k on
ScanFile(lines, k, st) ==
  IF k >= Len(lines) THEN st ELSE ScanFile(lines, k + 1, ScanFileLine(At(lines, k), st))

EncodeFile(lines) ==
  LET st == ScanFile(lines, 0, [text |-> <<>>, counts |-> Repeat(0, NSym)])
      h  == tree(st.counts)
  IN  IF SumCounts(st.counts, 0) = 0 THEN <<>>
      ELSE WriteOutput(h, huffman(h), st.text \o EOFSequence)

(***************************************************************************)
(* Vocabulary of the properties.                                           *)
(***************************************************************************)
IsDigit(c) == \E d \in 1..Len(DigitChars) : DigitChars[d] = c

Signed(l) == Len(l) > 0 /\ l[1] = "-"

DigitsOf(l) == IF Signed(l) THEN Drop(l, 1) ELSE l

\* an optional '-' followed by one or more decimal digits
ValidLine(l) ==
  /\ Len(DigitsOf(l)) >= 1
  /\ \A k \in 1..Len(DigitsOf(l)) : IsDigit(DigitsOf(l)[k])

\* a valid line with no superfluous leading zeros, zero written as "0"
CanonicalLine(l) ==
  /\ ValidLine(l)
  /\ Len(DigitsOf(l)) > 1 => DigitsOf(l)[1] # "0"
  /\ DigitsOf(l) = <<"0">> => ~Signed(l)

AllValid(lines) == \A k \in 1..Len(lines) : ValidLine(lines[k])

AllCanonical(lines) == \A k \in 1..Len(lines) : CanonicalLine(lines[k])

RECURSIVE StripZeros(_)
StripZeros(d) == IF Len(d) > 0 /\ d[1] = "0" THEN StripZeros(Drop(d, 1)) ELSE d

Sign(l) == IF Signed(l) THEN <<"-">> ELSE <<>>

\* the normalized integer of a valid line: leading zeros removed, the sign
\* preserved, "0" when all digits are zero
Normalized(l) ==
  IF StripZeros(DigitsOf(l)) = <<>> THEN <<"0">>
  ELSE Sign(l) \o StripZeros(DigitsOf(l))

\* the same, but a '-' before digits that are all zero leaves the bare sign
NormalizedOrSign(l) ==
  IF StripZeros(DigitsOf(l)) = <<>>
  THEN IF Signed(l) THEN <<"-">> ELSE <<"0">>
  ELSE Sign(l) \o StripZeros(DigitsOf(l))

Terminated == pc = "done" \/ pc = "crashed"

RECURSIVE PayloadBits(_, _, _)
\* the codes of the tokens of txt, from position k on, one after the other
PayloadBits(txt, cds, k) ==
  IF k > Len(txt) THEN <<>> ELSE At(cds, txt[k]) \o PayloadBits(txt, cds, k + 1)

\* the nodes whose parent is node p
ChildrenOf(t, p) == {k \in 0..(Len(t) - 1) : At(t, k) = p}

TreeBuilt == pc \in {"huffman", "coded", "rdheader", "header"}

CodesMade == pc \in {"coded", "rdheader", "header"}

(***************************************************************************)
(* Properties.                                                             *)
(***************************************************************************)
\* C1: for every file of canonical integer lines, the script encodes, decodes
\* and emits exactly the lines of the file, in order.
C1_RoundTrip ==
  (AllCanonical(src) /\ Terminated) => (pc = "done" /\ out = src)

\* The round trip of every file of canonical lines that has at least one line.
RoundTripOfLines ==
  (AllCanonical(src) /\ src # <<>> /\ Terminated) => (pc = "done" /\ out = src)

\* C2: the line decoded for each valid input line is its normalized integer:
\* leading zeros removed, the sign preserved, "0" when all digits are zero.
C2_Normalized ==
  (AllValid(src) /\ pc = "done") =>
     out = [k \in 1..Len(src) |-> Normalized(src[k])]

\* What the script decodes for the valid lines: the normalized integer, but the
\* bare sign "-" for a '-' before digits that are all zero.
DecodedOrSign ==
  (AllValid(src) /\ pc = "done") =>
     out = [k \in 1..Len(src) |-> NormalizedOrSign(src[k])]

\* Scenario A decodes to 7, -42, 0, -7.
ScenarioADecoded ==
  (pc = "done" /\ src = ScenarioA) =>
     out = << <<"7">>, <<"-", "4", "2">>, <<"0">>, <<"-", "7">> >>

\* C3: the code table of every frequency table is prefix-free, with pairwise
\* distinct non-empty codes.
C3_PrefixFree ==
  CodesMade =>
     /\ Len(codes) = NSym
     /\ \A a \in 1..NSym : codes[a] # <<>>
     /\ \A a, b \in 1..NSym : a # b => ~IsPrefix(codes[a], codes[b])

C3_Witness ==
  /\ pc = "coded"
  /\ \E s \in 1..NSym : counts[s] = 0
  /\ \E s \in 1..NSym : counts[s] > 0

\* C4: the header read takes exactly the fields written, rebuilds the parent
\* array entry for entry and so the same codes, and keeps the low nibble
\* behind a root field as the first 4 payload bits.
C4_HeaderRoundTrip ==
  /\ pc # "crashed"
  /\ pc = "header" =>
       /\ rheader = header
       /\ rcodes = codes
       /\ fpos = (Len(header) + 1) \div 2
       /\ buffer = IF Len(header) % 2 = 1
                   THEN Take(PayloadBits(text, codes, 1) \o Repeat(0, 4), 4)
                   ELSE <<>>

C4_Witness ==
  /\ pc = "header"
  /\ Len(rheader) = 2 * NSym - 1
  /\ rheader[Len(rheader)] = root
  /\ Len(buffer) = 4
  /\ \E s \in 1..NSym : counts[s] > 0

\* C5 (as claimed): in the token stream of valid lines, before the end marker
\* is appended, two symbol-0 tokens are never adjacent.
C5_NoAdjacentZeros ==
  (pc = "read" /\ AllValid(SubSeq(src, 1, i))) =>
     \A k \in 1..(Len(text) - 1) : ~(text[k] = 0 /\ text[k + 1] = 0)

\* C5 (amended): in the token stream of valid lines, before the end marker is
\* appended, no number begins with two symbol-0 tokens: a pair of adjacent
\* symbol-0 tokens is never at the start of the stream nor right behind a
\* separator.
C5_NoLeadingZeroPair ==
  (pc = "read" /\ AllValid(SubSeq(src, 1, i))) =>
     \A k \in 1..(Len(text) - 1) :
        (text[k] = 0 /\ text[k + 1] = 0) => (k > 1 /\ text[k - 1] # 10)

C5_Witness ==
  /\ pc = "read"
  /\ i = Len(src)
  /\ i > 0
  /\ AllValid(src)
  /\ \E k \in 1..(Len(text) - 1) : text[k] = 0 /\ text[k + 1] = 0

\* C6: for the empty input file the encode stage completes and writes header
\* and end marker, and decoding it ends the stream with zero lines.
C6_EmptyFile ==
  (src = <<>> /\ Terminated) =>
     (pc = "done" /\ Len(huf) > 0 /\ ~writing /\ out = <<>>)

\* C7: for every file of valid lines, encoding the decoded lines gives the
\* bytes that encoding the file gave.
C7_FixedPoint ==
  (AllValid(src) /\ Terminated) => (pc = "done" /\ EncodeFile(out) = huf)

\* The same for every file of valid lines that has at least one line.
FixedPointOfLines ==
  (AllValid(src) /\ src # <<>> /\ Terminated) =>
     (pc = "done" /\ EncodeFile(out) = huf)

\* C8: when the bytes of a truncated file run out before the end marker is
\* seen, the decoder ends in a fatal error, not normally.
C8_UnmatchedCode ==
  (cut > 0 /\ Terminated /\ writing /\ AtEOF(huf, fpos)) =>
     (pc = "crashed" /\ err # "")

\* C9: after every join each node with a parent has a parent of greater
\* index; when tree() returns, the last node alone holds the root marker and
\* nodes 0-10 are the leaves.
C9_ParentsAbove ==
  /\ \A k \in 0..(Len(header) - 1) :
        At(header, k) # root => (At(header, k) > k /\ At(header, k) < Len(header))
  /\ TreeBuilt =>
       /\ Len(header) > NSym
       /\ {k \in 0..(Len(header) - 1) : At(header, k) = root} = {Len(header) - 1}
       /\ \A k \in 0..(NSym - 1) : ChildrenOf(header, k) = {}

C9_Witness ==
  /\ pc = "huffman"
  /\ Len(header) = 2 * NSym - 1
  /\ \E s \in 1..NSym : counts[s] > 0

\* C10 (as claimed): of the two children of an internal node, the one in the
\* lower slot has the parent's code followed by 0, the other followed by 1.
C10_LowerChildZero ==
  CodesMade =>
     \A p \in NSym..(Len(header) - 1) : \A a, b \in ChildrenOf(header, p) :
        a < b => /\ At(code, a) = Append(At(code, p), 0)
                 /\ At(code, b) = Append(At(code, p), 1)

\* C10 (amended): of the two children of an internal node, the one in the
\* higher slot has the parent's code followed by 0, the other followed by 1.
C10_HigherChildZero ==
  CodesMade =>
     \A p \in NSym..(Len(header) - 1) :
        /\ Cardinality(ChildrenOf(header, p)) = 2
        /\ \A a, b \in ChildrenOf(header, p) :
              a < b => /\ At(code, b) = Append(At(code, p), 0)
                       /\ At(code, a) = Append(At(code, p), 1)

C10_Witness ==
  /\ pc = "coded"
  /\ Len(code) = 2 * NSym - 1
  /\ \E p \in NSym..(Len(header) - 1) : \E a \in ChildrenOf(header, p) :
        a < NSym /\ At(code, a) = Append(At(code, p), 1)

\* The header read of every file the script writes gives back tree and codes.
HeaderOfFile ==
  pc \in {"decode", "done"} => (rheader = header /\ rcodes = codes)

\* EncodeFile agrees with the stages of the script.
EncodeFileIsWrite == pc \in {"rdheader", "decode", "done"} => EncodeFile(src) = huf

====
